---------------------------- MODULE Spec2Model ----------------------------
(***************************************************************************)
(* A model of myDisassembler.py: a single pass over a list of 32-bit MIPS  *)
(* words (8 hex digits each) that renders one line per word into a growing *)
(* list, splices "Addr_HHHH:" labels for backward branches and appends a   *)
(* pending label for forward branches, then prints and writes the list.    *)
(*                                                                         *)
(* Representation.  A hex string is a sequence of nibbles 0..15, a binary  *)
(* string a sequence of bits, a decimal string a sequence of digits 0..9.  *)
(* A rendered line is a record                                             *)
(*     [kind, mn, regs, num, addr]                                         *)
(* whose kind names the format string that produced it:                    *)
(*   "shift"  "\t{mn}, {regs[1]}, {regs[2]}, {num}"                        *)
(*   "rtype"  "\t{mn}, {regs[1]}, {regs[2]}, {regs[3]}"                    *)
(*   "mem"    "\t{mn}, {regs[1]}, {num}({regs[2]})"                        *)
(*   "imm"    "\t{mn}, {regs[1]}, {regs[2]}, {num}"                        *)
(*   "branch" "\t{mn}, {regs[1]}, {regs[2]}, Addr_{addr}"                  *)
(*   "label"  "Addr_{addr}:"                                               *)
(* Python integers are unbounded; every integer of the model stays far     *)
(* below 2^31, and the one decimal number that would not (int(binString)   *)
(* in twosCM) is kept as its digit sequence.                               *)
(***************************************************************************)
EXTENDS Integers, Sequences, FiniteSets, TLC

VARIABLES
    words,        \* hex_values: the input lines, each a sequence of 8 nibbles
    index,        \* the loop's position: slot of the next word to process
    listQ,        \* the output buffer
    tempAddress,  \* address text of the pending forward label ("" at start)
    checkIndex,   \* slot of the pending forward label (0 at start)
    pc,           \* "loop" | "done" | "error" (errorOut) | "crash" (exception)
    fault,        \* the uncaught exception, "" when none
    errMsg,       \* what errorOut printed: <<>> or <<[word, index]>>
    printed,      \* the lines printed by the final loop
    outFile,      \* the .s file: [exists, lines]
    exitCode,     \* the process's exit status once pc # "loop"
    lineTag,      \* history: for each line of listQ, the slot and step kind that made it
    fwdLog,       \* history: the forward targets set so far, oldest first
    cvIm,         \* conversion check: the raw immediate
    cvOut,        \* conversion check: <<>> or <<result of the conversion>>
    cvPc          \* conversion check: "start" | "done"

vars == <<words, index, listQ, tempAddress, checkIndex, pc, fault, errMsg,
          printed, outFile, exitCode, lineTag, fwdLog, cvIm, cvOut, cvPc>>

mainVars == <<words, index, listQ, tempAddress, checkIndex, pc, fault, errMsg,
              printed, outFile, exitCode, lineTag, fwdLog>>

cvVars == <<cvIm, cvOut, cvPc>>

-----------------------------------------------------------------------------
(* Bounds of the model *)

\* longest input (number of words) of the pass
MaxWords == 4

-----------------------------------------------------------------------------
(* Strings of digits *)

HEX_BASE == 16

BIN_BASE == 2

RECURSIVE Digits(_, _)
\* the digits of n >= 0 in the given base, most significant first, "0" for 0:
\* what hex(n)[2:], bin(n)[2:] and str(n) produce
Digits(n, base) ==
    IF n < base THEN <<n>> ELSE Append(Digits(n \div base, base), n % base)

RECURSIVE ToInt(_, _)
\* int(s, base) of a non-empty digit string
ToInt(s, base) ==
    IF Len(s) = 0 THEN 0
    ELSE ToInt(SubSeq(s, 1, Len(s) - 1), base) * base + s[Len(s)]

\* s.zfill(width)
ZFill(s, width) ==
    IF Len(s) >= width THEN s ELSE [i \in 1..(width - Len(s)) |-> 0] \o s

\* hexToBinLookup: one hex digit to its four bits
hexToBinLookup(h) == <<h \div 8, (h \div 4) % 2, (h \div 2) % 2, h % 2>>


-----------------------------------------------------------------------------
(* The lookup tables.  A key such as '0x2a' is written as its value, 42. *)

\* the R-type function table, keyed by hex(function)
rOpcodes ==
    (0 :> "sll") @@ (2 :> "srl") @@ (32 :> "add") @@ (33 :> "addu") @@
    (34 :> "sub") @@ (35 :> "subu") @@ (36 :> "and") @@ (37 :> "or") @@
    (39 :> "nor") @@ (42 :> "slt") @@ (43 :> "sltu")

\* the I-type opcode table, keyed by hex(opcode)
iOpcodes ==
    (4 :> "beq") @@ (5 :> "bne") @@ (8 :> "addi") @@ (9 :> "addiu") @@
    (10 :> "slti") @@ (11 :> "sltiu") @@ (12 :> "andi") @@ (13 :> "ori") @@
    (15 :> "lui") @@ (35 :> "lw") @@ (36 :> "lbu") @@ (37 :> "lhu") @@
    (40 :> "sb") @@ (41 :> "sh") @@ (48 :> "ll") @@ (56 :> "sc") @@
    (43 :> "sw")

\* the register names in the order of their 5-bit keys '00000' .. '11111'
RegisterNames ==
    << "$zero", "$at", "$v0", "$v1", "$a0", "$a1", "$a2", "$a3",
       "$t0", "$t1", "$t2", "$t3", "$t4", "$t5", "$t6", "$t7",
       "$s0", "$s1", "$s2", "$s3", "$s4", "$s5", "$s6", "$s7",
       "$t8", "$t9", "$k0", "$k1", "$gp", "$sp", "$fp", "$ra" >>

\* the register table: every 5-bit string is a key
registerDictionary ==
    [b \in [1..5 -> {0, 1}] |-> RegisterNames[ToInt(b, BIN_BASE) + 1]]

-----------------------------------------------------------------------------
(* Field extraction.  Python's s[a:b] is SubSeq(s, a+1, b), s[a] is s[a+1]. *)

\* getOpCode: the first two hex digits, shifted right by two
getOpCode(value) == ToInt(SubSeq(value, 1, 2), HEX_BASE) \div 4

\* getRTypeFunction, the key it looks up: the last four characters of the
\* line (the last hex digits, with or without the line's newline) masked
\* with 0b00111111
RTypeFunctionKey(value) == ToInt(SubSeq(value, 5, 8), HEX_BASE) % 64

\* the same with the guard against unknown functions dropped: dict.get
\* answers None for a missing key
getRTypeFunctionUnguarded(value) ==
    [ok   |-> TRUE,
     func |-> IF RTypeFunctionKey(value) \in DOMAIN rOpcodes
              THEN rOpcodes[RTypeFunctionKey(value)] ELSE "None"]

\* getRTypeFunction: ok = FALSE is the call of errorOut
getRTypeFunction(value) ==
    IF RTypeFunctionKey(value) \notin DOMAIN rOpcodes
    THEN [ok |-> FALSE, func |-> ""]
    ELSE [ok |-> TRUE, func |-> rOpcodes[RTypeFunctionKey(value)]]

\* the bit string a register getter builds from hex digits a and b (0-based)
TwoNibbleBits(value, a, b) ==
    hexToBinLookup(value[a + 1]) \o hexToBinLookup(value[b + 1])

\* getRTypeRDRegister: binString[0:5] of digits 4 and 5
RDKey(value) == SubSeq(TwoNibbleBits(value, 4, 5), 1, 5)

\* getRSRegister: binString[2:7] of digits 1 and 2
RSKey(value) == SubSeq(TwoNibbleBits(value, 1, 2), 3, 7)

\* getRTRegister with the slice off by one: binString[2:7]
RTKeyShifted(value) == SubSeq(TwoNibbleBits(value, 2, 3), 3, 7)

\* getRTRegister: binString[3:] of digits 2 and 3
RTKey(value) == SubSeq(TwoNibbleBits(value, 2, 3), 4, 8)

\* the three getters' guard: the key is missing from the register table
\* (never, since every 5-bit string is a key)
RegisterMissing(value) ==
    \/ RDKey(value) \notin DOMAIN registerDictionary
    \/ RSKey(value) \notin DOMAIN registerDictionary
    \/ RTKey(value) \notin DOMAIN registerDictionary

getRTypeRDRegister(value) == registerDictionary[RDKey(value)]

getRSRegister(value) == registerDictionary[RSKey(value)]

getRTRegister(value) == registerDictionary[RTKey(value)]

\* getRTypeShamt: binString[1:6] of digits 5 and 6
getRTypeShamt(value) ==
    ToInt(SubSeq(TwoNibbleBits(value, 5, 6), 2, 6), BIN_BASE)

\* getITypeImmediate: the 16 bits of digits 4..7
getITypeImmediate(value) ==
    ToInt(hexToBinLookup(value[5]) \o hexToBinLookup(value[6]) \o
          hexToBinLookup(value[7]) \o hexToBinLookup(value[8]), BIN_BASE)

-----------------------------------------------------------------------------
(* The conversion of a branch immediate: twosCM, then getSignedInteger *)

RECURSIVE StripLeft(_)
\* s.lstrip('0'): the leading "0b" of bin() goes with the leading zeros
StripLeft(s) ==
    IF Len(s) > 0 /\ s[1] = 0 THEN StripLeft(Tail(s)) ELSE s

RECURSIVE StripRight(_)
\* s.rstrip('0')
StripRight(s) ==
    IF Len(s) > 0 /\ s[Len(s)] = 0
    THEN StripRight(SubSeq(s, 1, Len(s) - 1)) ELSE s

\* bin(n).strip('0b'): strip removes every leading and every trailing
\* character that is '0' or 'b', so the trailing zero bits go as well
BinStripped(n) == StripRight(StripLeft(Digits(n, BIN_BASE)))

\* the loop of twosCM: every bit but the first is inverted
InvertTail(s) == [i \in 1..Len(s) |-> IF i > 1 THEN 1 - s[i] ELSE s[i]]

RECURSIVE DecimalSucc(_)
\* str(int(s) + 1) for a non-empty string s of decimal digits without
\* leading zeros: the digits are read in base ten, whatever they were
DecimalSucc(s) ==
    IF Len(s) = 0 THEN <<1>>
    ELSE IF s[Len(s)] < 9 THEN [s EXCEPT ![Len(s)] = @ + 1]
    ELSE Append(DecimalSucc(SubSeq(s, 1, Len(s) - 1)), 0)

\* twosCM(immediate): ok = FALSE is the ValueError of int('')
twosCM(immediate) ==
    LET binString == InvertTail(BinStripped(immediate % 65536))
    IN  IF Len(binString) = 0
        THEN [ok |-> FALSE, str |-> <<>>]
        ELSE [ok |-> TRUE, str |-> DecimalSucc(StripLeft(binString))]

\* int(s, 2) accepts s: s is not empty and holds binary digits only
IsBinary(s) == Len(s) > 0 /\ \A i \in 1..Len(s) : s[i] \in {0, 1}

\* getSignedInteger(twosCM): ok = FALSE is the ValueError of int(.., 2)
getSignedInteger(t) ==
    LET signBit == t[1]
        rest    == Tail(t)
    IN  IF ~IsBinary(rest) THEN [ok |-> FALSE, val |-> 0]
        ELSE IF signBit = 0 THEN [ok |-> TRUE, val |-> ToInt(rest, BIN_BASE)]
        ELSE [ok |-> TRUE, val |-> ToInt(rest, BIN_BASE) * (-1)]

\* lines 287-288: signedInt of the immediate, or the exception
SignedOffset(im) ==
    IF ~twosCM(im).ok THEN [ok |-> FALSE, val |-> 0]
    ELSE getSignedInteger(twosCM(im).str)

-----------------------------------------------------------------------------
(* Rendering *)

Line(kind, mn, regs, num, addr) ==
    [kind |-> kind, mn |-> mn, regs |-> regs, num |-> num, addr |-> addr]

\* "Addr_{}:".format(addr)
LabelLine(addr) == Line("label", "", <<>>, 0, addr)

\* "\t{0}, {1}, {2}, Addr_{3}".format(func, rt, rs, addr)
BranchLine(func, value, addr) ==
    Line("branch", func, <<getRTRegister(value), getRSRegister(value)>>, 0, addr)

\* lines 259-266: the line of an R-type word
RTypeLine(func, value) ==
    IF func = "srl" \/ func = "sll"
    THEN Line("shift", func,
              <<getRTypeRDRegister(value), getRTRegister(value)>>,
              getRTypeShamt(value), <<>>)
    ELSE Line("rtype", func,
              <<getRTypeRDRegister(value), getRSRegister(value),
                getRTRegister(value)>>, 0, <<>>)

\* lines 277-280 and 313-316: the line of an I-type word that is no branch
ITypeLine(func, value) ==
    IF func = "sw" \/ func = "lw"
    THEN Line("mem", func, <<getRTRegister(value), getRSRegister(value)>>,
              getITypeImmediate(value), <<>>)
    ELSE Line("imm", func, <<getRTRegister(value), getRSRegister(value)>>,
              getITypeImmediate(value), <<>>)

\* hex(n).replace('0x', '').zfill(4)
HexAddr(n) == ZFill(Digits(n, HEX_BASE), 4)

\* line.startswith('Addr'): only a label line does, the others start with a tab
StartsWithAddr(line) == line.kind = "label"

\* list.insert done as an assignment: the element at position p is replaced
OverwriteAt(s, p, x) == [s EXCEPT ![p + 1] = x]

\* list.insert(p, x) for 0 <= p <= len(s)
InsertAt(s, p, x) == SubSeq(s, 1, p) \o <<x>> \o SubSeq(s, p + 1, Len(s))

\* the discharge test one slot late
IsAfterCheckIndex(idx, chk) == idx = chk + 1

\* line 282: index == checkIndex
IsCheckIndex(idx, chk) == idx = chk

-----------------------------------------------------------------------------
(* The inputs *)

\* a line of the input file: the 8 hex digits of the word whose upper half
\* is opcode | rs | rt and whose lower half is low16
Word(op, rs, rt, low16) ==
    ZFill(Digits(op * 1024 + rs * 32 + rt, HEX_BASE), 4) \o
    ZFill(Digits(low16, HEX_BASE), 4)

\* the lower half of an R-type word
RLow(rd, shamt, funct) == rd * 2048 + shamt * 64 + funct

\* 012a4020  add $t0, $t1, $t2
AddWord == Word(0, 9, 10, RLow(8, 0, 32))

\* 0000003f  opcode 0 with a function that is in no table
BadFunctionWord == Word(0, 0, 0, RLow(0, 0, 63))

\* fc000000  an opcode that is in no table
UnknownOpcodeWord == Word(63, 0, 0, 0)

\* 8d280004  lw $t0, 4($t1)
LwWord == Word(35, 9, 8, 4)

\* 11090001, 11090002  beq with the immediates 1 and 2
BeqFwd1 == Word(4, 8, 9, 1)

BeqFwd2 == Word(4, 8, 9, 2)

\* 1509ffff, 1509fffd, 15098000  bne with the immediates 0xffff, 0xfffd, 0x8000
BneBackFFFF == Word(5, 8, 9, 65535)

BneBackFFFD == Word(5, 8, 9, 65533)

BneBack8000 == Word(5, 8, 9, 32768)

\* the words the inputs of the pass are made of
PassWords ==
    { AddWord, BadFunctionWord, UnknownOpcodeWord, LwWord, BeqFwd1, BeqFwd2,
      BneBackFFFF, BneBackFFFD, BneBack8000 }

\* readInputFile: every list of at most MaxWords lines
PassInputs == UNION { [1..n -> PassWords] : n \in 0..MaxWords }

\* register numbers and shift amounts the decode check combines freely
FieldValues == {0, 1, 10, 21, 31}

\* the values the other fields take while one field runs over all of 0..31
SweepValues == {21}

\* immediates of the decode check, on both sides of the sign bit
ImmediateValues ==
    {0, 1, 2, 256, 4660, 16384, 32767, 32768, 43981, 65535}

\* the choices of (rs, rt, rd, shamt): all combinations of FieldValues, and
\* each field in turn over 0..31 with the others in SweepValues
FieldChoices ==
    (FieldValues \X FieldValues \X FieldValues \X FieldValues) \cup
    ((0..31) \X SweepValues \X SweepValues \X SweepValues) \cup
    (SweepValues \X (0..31) \X SweepValues \X SweepValues) \cup
    (SweepValues \X SweepValues \X (0..31) \X SweepValues) \cup
    (SweepValues \X SweepValues \X SweepValues \X (0..31))

\* every R-type function with every choice of rs, rt, rd and shamt
RTypeWords ==
    { Word(0, f[1], f[2], RLow(f[3], f[4], fn)) :
        f \in FieldChoices, fn \in DOMAIN rOpcodes }

\* the choices of (rs, rt) of an I-type word
RegisterChoices ==
    (FieldValues \X FieldValues) \cup
    ((0..31) \X SweepValues) \cup (SweepValues \X (0..31))

\* every I-type opcode but beq and bne with every choice of rs, rt, immediate
ITypeWords ==
    { Word(op, r[1], r[2], im) :
        r \in RegisterChoices, im \in ImmediateValues,
        op \in DOMAIN iOpcodes \ {4, 5} }

\* inputs of the decode check: one word, alone or after another line
DecodeInputs ==
    { <<w>> : w \in RTypeWords \cup ITypeWords } \cup
    { <<AddWord, w>> : w \in RTypeWords \cup ITypeWords }

-----------------------------------------------------------------------------
(* The pass: main() *)

\* lines 241-246: the state before the first iteration, for the input ws
MainStart(ws) ==
    /\ words = ws
    /\ index = 0
    /\ listQ = <<>>
    /\ tempAddress = <<>>
    /\ checkIndex = 0
    /\ pc = "loop"
    /\ fault = ""
    /\ errMsg = <<>>
    /\ printed = <<>>
    /\ outFile = [exists |-> FALSE, lines |-> <<>>]
    /\ exitCode = 0
    /\ lineTag = <<>>
    /\ fwdLog = <<>>

\* the conversion check at rest
ConvIdle == cvIm = 0 /\ cvOut = <<>> /\ cvPc = "idle"

Init == (\E ws \in PassInputs : MainStart(ws)) /\ ConvIdle

InitDecode == (\E ws \in DecodeInputs : MainStart(ws)) /\ ConvIdle

\* the loop is at a word
AtWord == pc = "loop" /\ index < Len(words)

\* the word of this iteration
Value == words[index + 1]

IsBranch(value) ==
    /\ getOpCode(value) \in DOMAIN iOpcodes
    /\ iOpcodes[getOpCode(value)] \in {"beq", "bne"}

\* errorOut(instruction, index): the message, then sys.exit(1)
ErrorOut(value) ==
    /\ pc' = "error"
    /\ errMsg' = <<[word |-> value, index |-> index]>>
    /\ exitCode' = 1
    /\ UNCHANGED <<words, index, listQ, tempAddress, checkIndex, fault,
                   printed, outFile, lineTag, fwdLog>>

\* an uncaught exception ends the process with status 1
Raise(exception) ==
    /\ pc' = "crash"
    /\ fault' = exception
    /\ exitCode' = 1
    /\ UNCHANGED <<words, index, listQ, tempAddress, checkIndex, errMsg,
                   printed, outFile, lineTag, fwdLog>>

\* listQ.append(msg) as the iteration's only effect
AppendOnly(line, by) ==
    /\ listQ' = Append(listQ, line)
    /\ lineTag' = Append(lineTag, [slot |-> index, by |-> by])
    /\ index' = index + 1
    /\ UNCHANGED <<words, tempAddress, checkIndex, pc, fault, errMsg,
                   printed, outFile, exitCode, fwdLog>>

\* lines 252-266: an R-type word
RTypeStep ==
    /\ AtWord
    /\ getOpCode(Value) = 0
    /\ IF ~getRTypeFunction(Value).ok \/ RegisterMissing(Value)
       THEN ErrorOut(Value)
       ELSE AppendOnly(RTypeLine(getRTypeFunction(Value).func, Value), "render")
    /\ UNCHANGED cvVars

\* lines 252, 268: the opcode is neither 0 nor in iOpcodes, so no branch of
\* the if/elif runs (the errorOut of line 270 sits inside the elif)
SkipStep ==
    /\ AtWord
    /\ getOpCode(Value) # 0
    /\ getOpCode(Value) \notin DOMAIN iOpcodes
    /\ index' = index + 1
    /\ UNCHANGED <<words, listQ, tempAddress, checkIndex, pc, fault, errMsg,
                   printed, outFile, exitCode, lineTag, fwdLog>>
    /\ UNCHANGED cvVars

\* lines 268-280, 313-316: an I-type word that is no branch
ITypeStep ==
    /\ AtWord
    /\ getOpCode(Value) \in DOMAIN iOpcodes
    /\ ~IsBranch(Value)
    /\ IF RegisterMissing(Value)
       THEN ErrorOut(Value)
       ELSE AppendOnly(ITypeLine(iOpcodes[getOpCode(Value)], Value), "render")
    /\ UNCHANGED cvVars

\* lines 281-283: a branch at the pending slot gives the pending label only
BranchLabelStep ==
    /\ AtWord
    /\ IsBranch(Value)
    /\ IsCheckIndex(index, checkIndex)
    /\ AppendOnly(LabelLine(tempAddress), "discharge")
    /\ UNCHANGED cvVars

\* line 290-293: tempIndex for the signed offset d
TempIndex(idx, d) == IF idx + d < 0 THEN 0 ELSE idx + d

\* lines 285-303: a branch whose immediate has the sign bit set
BranchBackwardStep ==
    /\ AtWord
    /\ IsBranch(Value)
    /\ ~IsCheckIndex(index, checkIndex)
    /\ getITypeImmediate(Value) >= 32768
    /\ LET signedInt == SignedOffset(getITypeImmediate(Value))
           tempIndex == TempIndex(index, signedInt.val)
           hexAddr   == HexAddr(tempIndex * 4)
           func      == iOpcodes[getOpCode(Value)]
           spliced   == ~StartsWithAddr(listQ[tempIndex + 1])
       IN  IF ~signedInt.ok THEN Raise("ValueError")
           ELSE IF tempIndex >= Len(listQ) THEN Raise("IndexError")
           ELSE /\ listQ' =
                     Append(IF spliced
                            THEN InsertAt(listQ, tempIndex, LabelLine(hexAddr))
                            ELSE listQ,
                            BranchLine(func, Value, hexAddr))
                /\ lineTag' =
                     Append(IF spliced
                            THEN InsertAt(lineTag, tempIndex,
                                          [slot |-> tempIndex, by |-> "splice"])
                            ELSE lineTag,
                            [slot |-> index, by |-> "render"])
                /\ index' = index + 1
                /\ UNCHANGED <<words, tempAddress, checkIndex, pc, fault,
                               errMsg, printed, outFile, exitCode, fwdLog>>
    /\ UNCHANGED cvVars

\* lines 305-311: a branch whose immediate has no sign bit
BranchForwardStep ==
    /\ AtWord
    /\ IsBranch(Value)
    /\ ~IsCheckIndex(index, checkIndex)
    /\ getITypeImmediate(Value) < 32768
    /\ checkIndex' = index + getITypeImmediate(Value)
    /\ tempAddress' = HexAddr((checkIndex' * 4) + 4)
    /\ listQ' = Append(listQ, BranchLine(iOpcodes[getOpCode(Value)], Value,
                                         tempAddress'))
    /\ lineTag' = Append(lineTag, [slot |-> index, by |-> "render"])
    /\ fwdLog' = Append(fwdLog, [at |-> index, target |-> checkIndex'])
    /\ index' = index + 1
    /\ UNCHANGED <<words, pc, fault, errMsg, printed, outFile, exitCode>>
    /\ UNCHANGED cvVars

\* lines 320-326: after the loop the list is printed and written to the file
WriteOutput ==
    /\ pc = "loop"
    /\ index = Len(words)
    /\ printed' = listQ
    /\ outFile' = [exists |-> TRUE, lines |-> listQ]
    /\ pc' = "done"
    /\ exitCode' = 0
    /\ UNCHANGED <<words, index, listQ, tempAddress, checkIndex, fault,
                   errMsg, lineTag, fwdLog>>
    /\ UNCHANGED cvVars

Next ==
    \/ RTypeStep
    \/ SkipStep
    \/ ITypeStep
    \/ BranchLabelStep
    \/ BranchBackwardStep
    \/ BranchForwardStep
    \/ WriteOutput

Spec == Init /\ [][Next]_vars

NextDecode ==
    \/ RTypeStep
    \/ ITypeStep
    \/ WriteOutput

SpecDecode == InitDecode /\ [][NextDecode]_vars

-----------------------------------------------------------------------------
(* The conversion on its own: every immediate that takes the backward path *)

InitConv ==
    /\ MainStart(<<>>)
    /\ cvIm \in 32768..65535
    /\ cvOut = <<>>
    /\ cvPc = "start"

\* lines 286-288 applied to the immediate cvIm
Convert ==
    /\ cvPc = "start"
    /\ cvOut' = <<SignedOffset(cvIm)>>
    /\ cvPc' = "done"
    /\ UNCHANGED cvIm
    /\ UNCHANGED mainVars

NextConv == Convert

SpecConv == InitConv /\ [][NextConv]_vars

-----------------------------------------------------------------------------
(* Vocabulary of the properties *)

\* the fields of a word by arithmetic on its two halves
Upper(value) == ToInt(SubSeq(value, 1, 4), HEX_BASE)

Lower(value) == ToInt(SubSeq(value, 5, 8), HEX_BASE)

FieldOp(value) == Upper(value) \div 1024

FieldRs(value) == (Upper(value) \div 32) % 32

FieldRt(value) == Upper(value) % 32

FieldRd(value) == Lower(value) \div 2048

FieldShamt(value) == (Lower(value) \div 64) % 32

FieldFunct(value) == Lower(value) % 64

\* opcode 0 with a function outside the R-type table
IsBadFunction(value) ==
    FieldOp(value) = 0 /\ FieldFunct(value) \notin DOMAIN rOpcodes

\* a non-zero opcode outside the I-type table
IsUnknownOpcode(value) ==
    FieldOp(value) # 0 /\ FieldOp(value) \notin DOMAIN iOpcodes

IsBranchWord(value) == FieldOp(value) \in {4, 5}

BadFunctionSlots == { k \in 0..(Len(words) - 1) : IsBadFunction(words[k + 1]) }

UnknownOpcodeSlots ==
    { k \in 0..(Len(words) - 1) : IsUnknownOpcode(words[k + 1]) }

Least(S) == CHOOSE k \in S : \A j \in S : k <= j

\* nothing of the buffer has been printed or written
NoOutput == printed = <<>> /\ ~outFile.exists /\ outFile.lines = <<>>

\* the step appends exactly the line x and nothing else
AppendsExactly(x) == listQ' = Append(listQ, x)

\* the step is the discharge of a pending label: its one new line is a label
AppendsALabel ==
    /\ Len(listQ') = Len(listQ) + 1
    /\ listQ'[Len(listQ')].kind = "label"

\* the most recently set forward target
LastTarget == fwdLog[Len(fwdLog)].target

\* every line of old is in new, unchanged and in the same order: new is old,
\* old with one line appended, or old with one label spliced in at a
\* position p and one line appended
Preserved(old, new) ==
    \/ new = old
    \/ /\ Len(new) = Len(old) + 1
       /\ SubSeq(new, 1, Len(old)) = old
    \/ /\ Len(new) = Len(old) + 2
       /\ \E p \in 0..Len(old) :
            /\ new[p + 1].kind = "label"
            /\ SubSeq(new, 1, p) = SubSeq(old, 1, p)
            /\ SubSeq(new, p + 2, Len(old) + 1) = SubSeq(old, p + 1, Len(old))

-----------------------------------------------------------------------------
(* C1 *)

\* C1: if some word's opcode is non-zero and not an I-type opcode, the pass
\* never gets past that word, never completes and nothing is printed or
\* written.
C1_UnknownOpcodeAborts ==
    UnknownOpcodeSlots # {} =>
        /\ pc # "done"
        /\ NoOutput
        /\ index <= Least(UnknownOpcodeSlots)

-----------------------------------------------------------------------------
(* C2 *)

\* C2: for every raw immediate r in 32768..65535, twosCM followed by
\* getSignedInteger returns a value, and the value is r - 65536.
C2_ConversionIsTwosComplement ==
    cvPc = "done" => cvOut[1].ok /\ cvOut[1].val = cvIm - 65536

-----------------------------------------------------------------------------
(* C3 *)

\* C3: processing a beq/bne word at any slot i with raw immediate r < 32768
\* sets the pending label to slot i + r with address text hex((i+r)*4 + 4)
\* and appends exactly the branch's own line referencing that text.
C3_ForwardBranchSetsPending ==
    [][ (AtWord /\ IsBranchWord(Value) /\ Lower(Value) < 32768) =>
          /\ checkIndex' = index + Lower(Value)
          /\ tempAddress' = HexAddr(((index + Lower(Value)) * 4) + 4)
          /\ Len(tempAddress') = 4
          /\ AppendsExactly(BranchLine(iOpcodes[FieldOp(Value)], Value,
                                       tempAddress')) ]_vars

-----------------------------------------------------------------------------
(* C4 *)

\* C4: after a beq/bne word is processed on the backward path at slot i,
\* with s = max(i + d, 0) and T = hex(s * 4), the last line of the buffer is
\* the branch's line referencing Addr_T and the buffer holds a label line
\* equal to "Addr_T:".
C4_BackwardReferenceHasItsLabel ==
    [][ ( /\ AtWord
          /\ IsBranchWord(Value)
          /\ index # checkIndex
          /\ Lower(Value) >= 32768
          /\ index' = index + 1 ) =>
        LET d == SignedOffset(Lower(Value)).val
            s == IF index + d < 0 THEN 0 ELSE index + d
            T == HexAddr(s * 4)
        IN  /\ listQ'[Len(listQ')] =
                 BranchLine(iOpcodes[FieldOp(Value)], Value, T)
            /\ \E p \in 1..Len(listQ') : listQ'[p] = LabelLine(T) ]_vars

-----------------------------------------------------------------------------
(* C5 *)

\* C5: every step leaves the lines already in the buffer byte-identical and
\* in the same order; a splice only shifts the lines at or after its
\* position by one.
C5_BufferLinesAreStable == [][ Preserved(listQ, listQ') ]_vars

\* a label was spliced in between lines that were already in the buffer,
\* among them a label or a branch reference after the splice position
C5_Witness ==
    \E p \in 2..Len(listQ) :
        /\ lineTag[p].by = "splice"
        /\ \E q \in (p + 1)..Len(listQ) :
              /\ listQ[q].kind \in {"label", "branch"}
              /\ lineTag[q].slot < index - 1

-----------------------------------------------------------------------------
(* C6 *)

-----------------------------------------------------------------------------
(* C7 *)

\* the line the claim expects for an R-type or non-branch I-type word
ExpectedLine(value) ==
    LET rs == RegisterNames[FieldRs(value) + 1]
        rt == RegisterNames[FieldRt(value) + 1]
        rd == RegisterNames[FieldRd(value) + 1]
    IN  IF FieldOp(value) = 0
        THEN IF rOpcodes[FieldFunct(value)] \in {"sll", "srl"}
             THEN Line("shift", rOpcodes[FieldFunct(value)], <<rd, rt>>,
                       FieldShamt(value), <<>>)
             ELSE Line("rtype", rOpcodes[FieldFunct(value)], <<rd, rs, rt>>,
                       0, <<>>)
        ELSE IF iOpcodes[FieldOp(value)] \in {"lw", "sw"}
             THEN Line("mem", iOpcodes[FieldOp(value)], <<rt, rs>>,
                       Lower(value), <<>>)
             ELSE Line("imm", iOpcodes[FieldOp(value)], <<rt, rs>>,
                       Lower(value), <<>>)

\* C7: every word of the 11 R-type functions and the 15 non-branch I-type
\* opcodes is decoded to exactly one appended line, of the shape of its
\* class, with the registers by name and the immediate as its unsigned value.
C7_DecodesToExpectedLine ==
    /\ pc \in {"loop", "done"}
    /\ Len(listQ) = index
    /\ \A k \in 1..index : listQ[k] = ExpectedLine(words[k])

\* the word ad558000 has been decoded, after another line, to
\* sw $s5, 32768($t2), and the output written
C7_Witness ==
    /\ pc = "done"
    /\ Len(listQ) = 2
    /\ words[2] = Word(43, 10, 21, 32768)
    /\ listQ[2] = Line("mem", "sw", <<"$s5", "$t2">>, 32768, <<>>)

-----------------------------------------------------------------------------
(* C8 *)

\* a branch at the slot of the most recently set target gives that target's
\* label and nothing else
DischargeAtLastTarget ==
    (IsBranchWord(Value) /\ index = LastTarget) =>
        /\ AppendsExactly(LabelLine(HexAddr((LastTarget * 4) + 4)))
        /\ lineTag'[Len(lineTag')] = [slot |-> index, by |-> "discharge"]

\* a word at that slot that is no branch gives no label: at most its own line
NoLabelForOtherWords ==
    (~IsBranchWord(Value) /\ index = LastTarget) =>
        \/ listQ' = listQ
        \/ /\ Len(listQ') = Len(listQ) + 1
           /\ SubSeq(listQ', 1, Len(listQ)) = listQ
           /\ listQ'[Len(listQ')].kind \in {"shift", "rtype", "mem", "imm"}

\* the step treats the word as an ordinary branch: no label is discharged,
\* and if the step completes the last line is the branch's own
OrdinaryBranch ==
    /\ ~AppendsALabel
    /\ index' = index + 1 =>
          /\ listQ'[Len(listQ')].kind = "branch"
          /\ listQ'[Len(listQ')].mn = iOpcodes[FieldOp(Value)]
          /\ lineTag'[Len(lineTag')] = [slot |-> index, by |-> "render"]

\* this slot was a forward target that a later forward branch has overwritten
IsOverwrittenTarget ==
    \E j \in 1..(Len(fwdLog) - 1) : fwdLog[j].target = index

-----------------------------------------------------------------------------
(* C9 *)

\* C9: in every state, a label spliced for destination slot s stands
\* immediately before the line produced for the word at slot s, and no slot
\* has two spliced labels.
C9_SplicedLabelPrecedesItsSlot ==
    /\ \A p \in 1..Len(lineTag) :
          lineTag[p].by = "splice" =>
              /\ p < Len(lineTag)
              /\ lineTag[p + 1].slot = lineTag[p].slot
              /\ lineTag[p + 1].by # "splice"
    /\ \A p, q \in 1..Len(lineTag) :
          ( /\ lineTag[p].by = "splice"
            /\ lineTag[q].by = "splice"
            /\ lineTag[p].slot = lineTag[q].slot ) => p = q

-----------------------------------------------------------------------------
(* C10 *)

\* C10: whenever a beq/bne word is about to take the backward path, the
\* clamped destination max(i + d, 0) is a position of the buffer.
C10_DestinationInRange ==
    ( /\ AtWord
      /\ IsBranchWord(Value)
      /\ index # checkIndex
      /\ Lower(Value) >= 32768
      /\ SignedOffset(Lower(Value)).ok ) =>
        LET d == SignedOffset(Lower(Value)).val
            s == IF index + d < 0 THEN 0 ELSE index + d
        IN  0 <= s /\ s < Len(listQ)

=============================================================================
